---- MODULE Spec2Model ----
(***************************************************************************)
(* TinyGuardian: the event ingestion and classification pipeline.          *)
(*                                                                         *)
(*   guardian.py           TinyGuardian: start/stop lifecycle, the MQTT    *)
(*                         callback, the intake queue, the consumer loop,  *)
(*                         the event log, alert dispatch, the queries      *)
(*                         get_recent_events, get_alerts, get_stats        *)
(*   llm_client.py         LLMClient: analyze_log and _parse_response      *)
(*   threat_classifier.py  ThreatClassifier: classify, the per-device      *)
(*                         window, escalation, pruning                     *)
(*                                                                         *)
(* Units.  A severity is a whole number of tenths (0.7 is 7, 1.0 is 10).   *)
(* A time is a whole number of half seconds, so two clock readings may lie *)
(* in the same second; the five-minute window is 600 of them.              *)
(*                                                                         *)
(* Text.  A string is the sequence of its words.  `term in text` (Python's *)
(* substring test) is: the words of the term occur side by side in the     *)
(* text, a word of the text matching a word of the term when it equals it  *)
(* or is listed in Embeds as containing it ("ddos" contains "dos").        *)
(*                                                                         *)
(* A SecurityEvent keeps the fields the pipeline's decisions read:         *)
(* event_id, device_id, timestamp, threat_level, severity, threat_type.    *)
(* log_message, explanation, recommendation, source_ip and user are copied *)
(* from the inputs and never read again by the core; they are left out.    *)
(***************************************************************************)
EXTENDS Integers, Sequences, FiniteSets, TLC

(***************************************************************************)
(* Program constants                                                       *)
(***************************************************************************)
\* threat_classifier.py:55  timedelta(minutes=5), in half seconds
EventWindow == 600
\* threat_classifier.py:89  severity + 0.2
Escalation == 2
\* threat_classifier.py:89  min(1.0, ...)
SeverityCap == 10
\* threat_classifier.py:181 len(recent) >= 3
PatternCount == 3
\* guardian.py:31 severity_threshold = 0.7
SeverityThreshold == 7
\* llm_client.py:199 response[:500]
ExplanationLimit == 500

(***************************************************************************)
(* Bounds of the model                                                     *)
(***************************************************************************)
\* records the transport delivers in one run of the full system
MaxRecords == 2
\* consumer threads (successful thread starts) in one run of the full system
MaxThreads == 2
\* direct calls of ThreatClassifier.classify in one run
MaxCalls == 4
\* records handed to _process_log in one run of the sequential pipeline
MaxProcessed == 4
\* observers registered with register_alert_callback
MaxCallbacks == 2
\* records processed while the API's thread queries
MaxQueried == 3

(***************************************************************************)
(* Small helpers                                                           *)
(***************************************************************************)
Min(a, b) == IF a <= b THEN a ELSE b
Max(a, b) == IF a >= b THEN a ELSE b

\* dict.get(key, default)
Get(dict, key, default) == IF key \in DOMAIN dict THEN dict[key] ELSE default

\* seq[:n]: the first n elements; for a negative n, all but the last -n
Take(seq, n) ==
    IF n >= 0 THEN SubSeq(seq, 1, Min(Len(seq), n))
    ELSE SubSeq(seq, 1, Max(0, Len(seq) + n))

(***************************************************************************)
(* Text                                                                    *)
(***************************************************************************)
\* str.lower() on the words the model uses
Lower(w) ==
    CASE w = "Failed"     -> "failed"
      [] w = "CRITICAL"   -> "critical"
      [] w = "Connection" -> "connection"
      [] w = "Error"      -> "error"
      [] w = "No"         -> "no"
      [] OTHER            -> w

LowerText(text) == [i \in 1..Len(text) |-> Lower(text[i])]

\* pairs <<word, part>>: the word contains the part as a substring
Embeds == { <<"ddos", "dos">>, <<"configuration", "config">>,
            <<"settings", "setting">>, <<"database", "data">>,
            <<"highly", "high">>, <<"abnormal", "normal">>,
            <<"unsafe", "safe">>, <<"lower", "low">> }

WordHas(w, part) == w = part \/ <<w, part>> \in Embeds

\* `term in text`
Contains(text, term) ==
    \E i \in 1..(Len(text) - Len(term) + 1) :
        \A j \in 1..Len(term) : WordHas(text[i + j - 1], term[j])

\* any(term in text for term in terms)
AnyIn(terms, text) == \E term \in terms : Contains(text, term)

\* f"{a} {b}"
Join(a, b) == a \o b

(***************************************************************************)
(* JSON values of a backend answer                                         *)
(***************************************************************************)
Str(words) == [t |-> "str", v |-> words]
Num(n) == [t |-> "num", v |-> n]
Null == [t |-> "null"]
NaN == [t |-> "nan"]

(***************************************************************************)
(* LLMClient (llm_client.py)                                               *)
(*                                                                         *)
(* A backend answer is one of                                              *)
(*   [kind |-> "error"]                     _generate raises               *)
(*   [kind |-> "text", body |-> words]      no JSON can be parsed out      *)
(*   [kind |-> "json", body |-> words, obj |-> dict]   a JSON object       *)
(*   [kind |-> "array", body |-> words]     JSON, but not an object        *)
(* body is the raw text, obj the parsed object: field name -> JSON value.  *)
(***************************************************************************)
HighWords == { <<"critical">>, <<"high">>, <<"severe">> }
MediumWords == { <<"medium">>, <<"moderate">> }
LowWords == { <<"low">>, <<"minor">> }
NoneWords == { <<"none">>, <<"normal">>, <<"safe">> }

\* the except branch looking for the medium vocabulary before the high one
FallbackAssessmentMediumFirst(body) ==
    LET lowered == LowerText(body)
        level == IF AnyIn(MediumWords, lowered) THEN <<"medium">>
                 ELSE IF AnyIn(HighWords, lowered) THEN <<"high">>
                 ELSE IF AnyIn(LowWords, lowered) THEN <<"low">>
                 ELSE IF AnyIn(NoneWords, lowered) THEN <<"none">>
                 ELSE <<"unknown">>
        sev == IF AnyIn(MediumWords, lowered) THEN 5
               ELSE IF AnyIn(HighWords, lowered) THEN 8
               ELSE IF AnyIn(LowWords, lowered) THEN 3
               ELSE IF AnyIn(NoneWords, lowered) THEN 0
               ELSE 5
    IN  [threat_level |-> level,
         severity |-> sev,
         explanation |-> Str(Take(body, ExplanationLimit))]

\* _parse_response, the except branch: the assessment read off the raw text
FallbackAssessment(body) ==
    LET lowered == LowerText(body)
        level == IF AnyIn(HighWords, lowered) THEN <<"high">>
                 ELSE IF AnyIn(MediumWords, lowered) THEN <<"medium">>
                 ELSE IF AnyIn(LowWords, lowered) THEN <<"low">>
                 ELSE IF AnyIn(NoneWords, lowered) THEN <<"none">>
                 ELSE <<"unknown">>
        sev == IF AnyIn(HighWords, lowered) THEN 8
               ELSE IF AnyIn(MediumWords, lowered) THEN 5
               ELSE IF AnyIn(LowWords, lowered) THEN 3
               ELSE IF AnyIn(NoneWords, lowered) THEN 0
               ELSE 5
    IN  [threat_level |-> level,
         severity |-> sev,
         explanation |-> Str(Take(body, ExplanationLimit))]

\* the strings float() accepts, with their values
NumberWords == { <<"0.9">>, <<"1.5">> }
FloatOfWords(words) == IF words = <<"0.9">> THEN 9 ELSE 15

\* float(x) succeeds: a number, NaN, or a string that spells a number
FloatOk(x) == x.t \in {"num", "nan"} \/ (x.t = "str" /\ x.v \in NumberWords)

\* float(x), when it succeeds and is not NaN
FloatOf(x) == IF x.t = "str" THEN FloatOfWords(x.v) ELSE x.v

\* the clamp without its lower bound: min(1.0, severity)
ClampSeverityUpperOnly(x) ==
    IF x.t = "nan" THEN SeverityCap
    ELSE Min(SeverityCap, FloatOf(x))

\* max(0.0, min(1.0, severity)); min(1.0, nan) is 1.0 in Python
ClampSeverity(x) ==
    IF x.t = "nan" THEN SeverityCap
    ELSE Max(0, Min(SeverityCap, FloatOf(x)))

\* _parse_response, the try branch succeeds: threat_level is a string and
\* severity converts to a float
StructuredOk(resp) ==
    /\ resp.kind = "json"
    /\ Get(resp.obj, "threat_level", Str(<<"unknown">>)).t = "str"
    /\ FloatOk(Get(resp.obj, "severity", Num(0)))

\* LLMClient._parse_response
ParseResponse(resp) ==
    IF StructuredOk(resp)
    THEN [threat_level |->
              LowerText(Get(resp.obj, "threat_level", Str(<<"unknown">>)).v),
          severity |-> ClampSeverity(Get(resp.obj, "severity", Num(0))),
          explanation |->
              Get(resp.obj, "explanation", Str(<<"No", "explanation", "provided">>))]
    ELSE FallbackAssessment(resp.body)

\* analyze_log putting the exception itself, not its text, in the explanation
AnalyzeLogKeepsException(resp) ==
    IF resp.kind = "error"
    THEN [threat_level |-> <<"unknown">>,
          severity |-> 0,
          explanation |-> [t |-> "exception", v |-> <<"Connection", "refused">>]]
    ELSE ParseResponse(resp)

\* LLMClient.analyze_log: the degraded assessment when the call raises
AnalyzeLog(resp) ==
    IF resp.kind = "error"
    THEN [threat_level |-> <<"unknown">>,
          severity |-> 0,
          explanation |-> Str(<<"Error", "analyzing", "log:", "Connection", "refused">>)]
    ELSE ParseResponse(resp)

(***************************************************************************)
(* ThreatClassifier (threat_classifier.py)                                 *)
(*                                                                         *)
(* recent_events is the dict device_id -> list of events: a function whose *)
(* domain is the set of devices seen so far.  An assessment (llm_analysis) *)
(* is a dict: "threat_level" -> words, "severity" -> tenths,               *)
(* "explanation" -> JSON value; a direct caller may leave keys out.        *)
(***************************************************************************)
AuthTerms == { <<"failed", "login">>, <<"authentication", "failed">>,
               <<"invalid", "password">> }
BurstTerms == { <<"multiple">>, <<"repeated">>, <<"brute">> }
DeniedTerms == { <<"unauthorized">>, <<"access", "denied">>,
                 <<"permission", "denied">> }
NetworkTerms == { <<"network">>, <<"connection">>, <<"socket">>, <<"port", "scan">> }
ConfigTerms == { <<"config">>, <<"setting">>, <<"configuration", "changed">> }
ExfiltrationTerms == { <<"data">>, <<"export">>, <<"download">>, <<"exfiltrat">> }
MalwareTerms == { <<"malware">>, <<"virus">>, <<"trojan">>, <<"ransomware">> }
DosTerms == { <<"dos">>, <<"ddos">>, <<"denial">>, <<"overload">> }

\* _determine_threat_type testing the networking group before the others
DetermineThreatTypeNetworkFirst(log_message, explanation) ==
    LET combined == Join(LowerText(log_message), LowerText(explanation))
    IN  IF AnyIn(NetworkTerms, combined) THEN "network_anomaly"
        ELSE IF AnyIn(AuthTerms, combined)
        THEN IF AnyIn(BurstTerms, combined) THEN "brute_force"
             ELSE "unauthorized_access"
        ELSE IF AnyIn(DeniedTerms, combined) THEN "unauthorized_access"
        ELSE IF AnyIn(ConfigTerms, combined) THEN "configuration_change"
        ELSE IF AnyIn(ExfiltrationTerms, combined) THEN "data_exfiltration"
        ELSE IF AnyIn(MalwareTerms, combined) THEN "malware"
        ELSE IF AnyIn(DosTerms, combined) THEN "denial_of_service"
        ELSE "unknown"

\* ThreatClassifier._determine_threat_type, for an explanation that is a string
DetermineThreatType(log_message, explanation) ==
    LET combined == Join(LowerText(log_message), LowerText(explanation))
    IN  IF AnyIn(AuthTerms, combined)
        THEN IF AnyIn(BurstTerms, combined) THEN "brute_force"
             ELSE "unauthorized_access"
        ELSE IF AnyIn(DeniedTerms, combined) THEN "unauthorized_access"
        ELSE IF AnyIn(NetworkTerms, combined) THEN "network_anomaly"
        ELSE IF AnyIn(ConfigTerms, combined) THEN "configuration_change"
        ELSE IF AnyIn(ExfiltrationTerms, combined) THEN "data_exfiltration"
        ELSE IF AnyIn(MalwareTerms, combined) THEN "malware"
        ELSE IF AnyIn(DosTerms, combined) THEN "denial_of_service"
        ELSE "unknown"

\* the events of a window that _check_pattern counts
SimilarRecent(window, threat_type, timestamp) ==
    SelectSeq(window, LAMBDA e : /\ e.timestamp >= timestamp - EventWindow
                                 /\ e.threat_type = threat_type)

\* _check_pattern looking for a pattern in the list of any device
CheckPatternAnyDevice(recent, device_id, threat_type, timestamp) ==
    \E d \in DOMAIN recent :
        Len(SimilarRecent(recent[d], threat_type, timestamp)) >= PatternCount

\* _clean_old_events keeping only the events newer than the cutoff
CleanOldEventsAfterCutoff(recent, device_id, current_time) ==
    IF device_id \notin DOMAIN recent THEN recent
    ELSE [recent EXCEPT ![device_id] =
             SelectSeq(@, LAMBDA e : e.timestamp > current_time - EventWindow)]

\* _check_pattern counting the event being created with the stored ones
CheckPatternCountsNew(recent, device_id, threat_type, timestamp) ==
    IF device_id \notin DOMAIN recent THEN FALSE
    ELSE Len(SimilarRecent(recent[device_id], threat_type, timestamp)) + 1
             >= PatternCount

\* ThreatClassifier._check_pattern
CheckPattern(recent, device_id, threat_type, timestamp) ==
    IF device_id \notin DOMAIN recent THEN FALSE
    ELSE Len(SimilarRecent(recent[device_id], threat_type, timestamp)) >= PatternCount

\* _clean_old_events building the filtered list and not storing it
CleanOldEventsNotStored(recent, device_id, current_time) == recent

\* ThreatClassifier._clean_old_events
CleanOldEvents(recent, device_id, current_time) ==
    IF device_id \notin DOMAIN recent THEN recent
    ELSE [recent EXCEPT ![device_id] =
              SelectSeq(@, LAMBDA e : e.timestamp >= current_time - EventWindow)]

\* f"{timestamp.timestamp():.0f}": half seconds to whole seconds, a half
\* rounding to the even neighbour
RoundSeconds(t) ==
    LET q == t \div 2
    IN  IF t % 2 = 0 THEN q ELSE IF q % 2 = 0 THEN q ELSE q + 1

\* f"evt_{timestamp.timestamp():.0f}_{device_id}"
EventId(timestamp, device_id) == <<"evt", RoundSeconds(timestamp), device_id>>

\* classify escalating when another device holds a similar recent event
EscalatedSeverityOtherDevices(recent, device_id, threat_type, timestamp, severity) ==
    IF \E d \in DOMAIN recent \ { device_id } :
           SimilarRecent(recent[d], threat_type, timestamp) # <<>>
    THEN Min(SeverityCap, severity + Escalation)
    ELSE severity

\* classify, lines 86-89: the severity of the new event
EscalatedSeverity(recent, device_id, threat_type, timestamp, severity) ==
    IF CheckPattern(recent, device_id, threat_type, timestamp)
    THEN Min(SeverityCap, severity + Escalation)
    ELSE severity

\* classify putting the new event at the head of its device's list
StoreRecentAtFront(recent, device_id, event) ==
    IF device_id \in DOMAIN recent
    THEN [recent EXCEPT ![device_id] = <<event>> \o @]
    ELSE recent @@ (device_id :> <<event>>)

\* classify, lines 105-108: the new event appended to its device's list
StoreRecent(recent, device_id, event) ==
    IF device_id \in DOMAIN recent
    THEN [recent EXCEPT ![device_id] = Append(@, event)]
    ELSE recent @@ (device_id :> <<event>>)

NoEvent == [event_id |-> <<>>]

\* ThreatClassifier.classify: whether it raised (the explanation is no
\* string, so .lower() fails before anything is stored), the event it
\* returns, and the classifier's recent_events afterwards
Classify(recent, device_id, log_message, llm_analysis, timestamp) ==
    LET explanation == Get(llm_analysis, "explanation", Str(<<>>))
    IN  IF explanation.t # "str"
        THEN [raised |-> TRUE, event |-> NoEvent, recent_events |-> recent]
        ELSE
        LET threat_type == DetermineThreatType(log_message, explanation.v)
            event == [event_id |-> EventId(timestamp, device_id),
                      device_id |-> device_id,
                      timestamp |-> timestamp,
                      threat_level |-> Get(llm_analysis, "threat_level", <<"unknown">>),
                      severity |-> EscalatedSeverity(recent, device_id, threat_type,
                                       timestamp, Get(llm_analysis, "severity", 0)),
                      threat_type |-> threat_type]
        IN  [raised |-> FALSE,
             event |-> event,
             recent_events |->
                 CleanOldEvents(StoreRecent(recent, device_id, event),
                                device_id, timestamp)]

\* is_alert with > in place of >=
IsAlertAbove(event) == event.severity > SeverityThreshold

\* ThreatClassifier.is_alert
IsAlert(event) == event.severity >= SeverityThreshold

(***************************************************************************)
(* TinyGuardian: the event log, alert dispatch, the queries (guardian.py)  *)
(***************************************************************************)
\* the log with its first event in place of appending at the end
StoreEventAtFront(log, event) == <<event>> \o log

\* _process_log, line 172: self.events.append(event)
StoreEvent(log, event) == Append(log, event)

\* the observers: on_alert of main.py logs the event and returns, "failing"
\* is an observer that raises an Exception
Callbacks == { "on_alert", "failing" }
CallbackRaises == { "failing" }

\* the loop of _trigger_alert leaving at the first exception
TriggerAlertUntilRaise(callbacks, event) ==
    LET calls_made == [i \in 1..Len(callbacks) |->
                          [callback |-> callbacks[i],
                           raised |-> callbacks[i] \in CallbackRaises]]
    IN  IF \E i \in 1..Len(callbacks) : calls_made[i].raised
        THEN SubSeq(calls_made, 1,
                    CHOOSE i \in 1..Len(callbacks) :
                        /\ calls_made[i].raised
                        /\ \A j \in 1..(i - 1) : ~calls_made[j].raised)
        ELSE calls_made

\* TinyGuardian._trigger_alert: the calls it makes, in order; an Exception
\* of a callback is caught and logged inside the loop
TriggerAlert(callbacks, event) ==
    [i \in 1..Len(callbacks) |->
        [callback |-> callbacks[i], raised |-> callbacks[i] \in CallbackRaises]]

\* _process_log, lines 175-177: the observer calls made for a stored event
AlertDispatch(callbacks, event) ==
    IF IsAlert(event) THEN TriggerAlert(callbacks, event) ELSE <<>>

\* sorted(..., key=lambda e: e.timestamp, reverse=True): a stable sort, so
\* events of one timestamp keep the order they have in the argument
RECURSIVE SortedByTimestampDesc(_)
SortedByTimestampDesc(seq) ==
    IF seq = <<>> THEN <<>>
    ELSE LET head == Head(seq)
             rest == SortedByTimestampDesc(Tail(seq))
             newer == SelectSeq(rest, LAMBDA e : e.timestamp > head.timestamp)
             others == SelectSeq(rest, LAMBDA e : e.timestamp <= head.timestamp)
         IN  newer \o <<head>> \o others

\* TinyGuardian.get_recent_events: a new list, self.events is left alone
RecentEvents(log, limit) == Take(SortedByTimestampDesc(log), limit)

\* get_alerts cutting the sorted log to the limit before it filters
AlertsOfMostRecent(log, limit) ==
    SelectSeq(Take(SortedByTimestampDesc(log), limit), IsAlert)

\* TinyGuardian.get_alerts: a new list, self.events is left alone
Alerts(log, limit) ==
    Take(SortedByTimestampDesc(SelectSeq(log, IsAlert)), limit)

\* get_stats, line 203
AlertCount(log) == Len(SelectSeq(log, IsAlert))

\* the loop of get_stats storing 1 for a type in place of adding 1
RECURSIVE ThreatTypesSeen(_, _)
ThreatTypesSeen(log, threat_types) ==
    IF log = <<>> THEN threat_types
    ELSE ThreatTypesSeen(Tail(log),
             [ty \in DOMAIN threat_types \cup { Head(log).threat_type } |->
                 IF ty = Head(log).threat_type THEN 1 ELSE threat_types[ty]])

\* get_stats, lines 205-208: threat_types.get(threat_type, 0) + 1 per event
RECURSIVE ThreatTypes(_, _)
ThreatTypes(log, threat_types) ==
    IF log = <<>> THEN threat_types
    ELSE ThreatTypes(Tail(log),
             [ty \in DOMAIN threat_types \cup { Head(log).threat_type } |->
                 IF ty = Head(log).threat_type
                 THEN Get(threat_types, ty, 0) + 1
                 ELSE threat_types[ty]])

(***************************************************************************)
(* State                                                                   *)
(***************************************************************************)
VARIABLES
    running,           \* TinyGuardian.running
    mqtt_client,       \* TinyGuardian.mqtt_client and its network loop:
                       \*   "none", "created", "connected", "looping", "stopped"
    processing_thread, \* TinyGuardian.processing_thread: 0 is None
    processing_queue,  \* TinyGuardian.processing_queue
    events,            \* TinyGuardian.events, the event log
    recent_events,     \* ThreatClassifier.recent_events
    consumers,         \* per thread running _process_queue: where it is, and
                       \*   the locals item, llm_analysis, event of _process_log
    caller,            \* where the thread calling start/stop is
    start_outcome,     \* how the last start_monitoring call ended
    clock,             \* datetime.now()
    put_count,         \* history: records put on the queue so far
    got_count,         \* history: records taken off the queue so far
    event_records,     \* history: for each event of the log, its record
    leftover,          \* history: records seen in the queue while stopped
    calls,             \* history: direct calls of classify / _process_log
    last_call,         \* history: the last direct call, inputs and result
    alert_callbacks,   \* TinyGuardian.alert_callbacks
    reader,            \* the API thread inside get_stats: where it is, and
                       \*   the locals total_events and alerts
    last_query,        \* history: the last finished query and its result
    twin_recent_events,\* recent_events of a second ThreatClassifier
    twin_call,         \* history: the last classify call on the second one
    events_at_stop     \* history: len(self.events) when stop_monitoring last
                       \* returned, -1 before that and once start is called again

vars == <<running, mqtt_client, processing_thread, processing_queue, events,
          recent_events, consumers, caller, start_outcome, clock, put_count,
          got_count, event_records, leftover, calls, last_call,
          alert_callbacks, reader, last_query, twin_recent_events, twin_call,
          events_at_stop>>

Threads == 1..MaxThreads

NoItem == [seq |-> 0]
NoAnalysis == [none |-> TRUE]
NoCall == [op |-> "none"]
NoQuery == [op |-> "none"]
ReaderIdle == [pc |-> "idle"]

IdleLocals == [item |-> NoItem, llm_analysis |-> NoAnalysis, event |-> NoEvent]

(***************************************************************************)
(* Inputs                                                                  *)
(***************************************************************************)
\* MQTT topics: path segments
Topics == { <<"iot", "devices", "d1", "logs">>, <<"iot", "status">> }

\* MQTT payloads, decoded
Payloads == { <<"Failed", "login", "for", "admin">>, <<"temperature", "normal">> }

\* how far the clock moves between two readings
ClockSteps == { 0, 1, EventWindow }

RespError == [kind |-> "error"]
RespText == [kind |-> "text", body |-> <<"CRITICAL", "multiple", "attempts">>]
RespHigh ==
    [kind |-> "json", body |-> <<"{...}">>,
     obj |-> [threat_level |-> Str(<<"high">>), severity |-> Num(15),
              explanation |-> Str(<<"port", "scan">>)]]
RespNegative ==
    [kind |-> "json", body |-> <<"{...}">>, obj |-> [severity |-> Num(-5)]]
RespNullExplanation ==
    [kind |-> "json", body |-> <<"{...}">>,
     obj |-> [severity |-> Num(4), explanation |-> Null]]
RespBadSeverity ==
    [kind |-> "json", body |-> <<"{...}", "minor">>,
     obj |-> [severity |-> Str(<<"abc">>)]]
RespNaN ==
    [kind |-> "json", body |-> <<"{...}">>, obj |-> [severity |-> NaN]]
RespArray == [kind |-> "array", body |-> <<"[...]", "moderate">>]

\* what the inference backend may answer
Responses == { RespError, RespText, RespHigh, RespNegative, RespNullExplanation }

\* the inputs of the full system, where the interleavings are many: one
\* payload, two clock steps, three answers
SystemPayloads == { <<"Failed", "login", "for", "admin">> }
SystemClockSteps == { 0, EventWindow }
SystemResponses == { RespError, RespHigh, RespNullExplanation }

\* guardian.py:128-129  re.search(r'devices/([^/]+)', topic)
ExtractDeviceId(topic) ==
    IF \E i \in 1..(Len(topic) - 1) : topic[i] = "devices"
    THEN topic[(CHOOSE i \in 1..(Len(topic) - 1) :
                   /\ topic[i] = "devices"
                   /\ \A j \in 1..(i - 1) : topic[j] # "devices") + 1]
    ELSE "unknown"

(***************************************************************************)
(* After TinyGuardian.__init__                                             *)
(***************************************************************************)
Init ==
    /\ running = FALSE
    /\ mqtt_client = "none"
    /\ processing_thread = 0
    /\ processing_queue = <<>>
    /\ events = <<>>
    /\ recent_events = <<>>
    /\ consumers = [t \in Threads |-> [pc |-> "unborn"] @@ IdleLocals]
    /\ caller = "idle"
    /\ start_outcome = "none"
    /\ clock = 0
    /\ put_count = 0
    /\ got_count = 0
    /\ event_records = <<>>
    /\ leftover = {}
    /\ calls = 0
    /\ last_call = NoCall
    /\ alert_callbacks = <<>>
    /\ reader = ReaderIdle
    /\ last_query = NoQuery
    /\ twin_recent_events = <<>>
    /\ twin_call = NoCall
    /\ events_at_stop = -1

\* no consumer thread is alive
NoConsumer == \A t \in Threads : consumers[t].pc \in {"unborn", "done"}

\* the orchestrator is stopped: the flag is clear, no start or stop is under
\* way and no consumer is left
Stopped == ~running /\ caller = "idle" /\ NoConsumer

\* history: the records that sit in the queue while the orchestrator is stopped
TrackLeftover ==
    leftover' = IF Stopped'
                THEN leftover \cup { processing_queue'[i].seq :
                                       i \in 1..Len(processing_queue') }
                ELSE leftover

\* what the lifecycle, the callback and the consumers of Spec leave alone:
\* the histories of direct calls, and the observers and queries, which have
\* no caller there
directVars == <<calls, last_call, alert_callbacks, reader, last_query,
                twin_recent_events, twin_call>>

queryVars == <<alert_callbacks, reader, last_query>>

(***************************************************************************)
(* TinyGuardian.start_monitoring (guardian.py:70-100)                      *)
(***************************************************************************)
\* lines 72-74: already monitoring, return
StartAlready ==
    /\ caller = "idle"
    /\ running
    /\ start_outcome' = "already"
    /\ UNCHANGED <<running, mqtt_client, processing_thread, processing_queue,
                   events, recent_events, consumers, caller, clock, put_count,
                   got_count, event_records, directVars>>
    /\ events_at_stop' = -1
    /\ TrackLeftover

\* lines 77-79: the connectivity probe fails, ConnectionError
StartProbeFails ==
    /\ caller = "idle"
    /\ ~running
    /\ start_outcome' = "raised"
    /\ UNCHANGED <<running, mqtt_client, processing_thread, processing_queue,
                   events, recent_events, consumers, caller, clock, put_count,
                   got_count, event_records, directVars>>
    /\ events_at_stop' = -1
    /\ TrackLeftover

\* start_monitoring setting the flag before it connects
StartConnectFailsFlagSet ==
    /\ caller = "idle"
    /\ ~running
    /\ mqtt_client' = "created"
    /\ running' = TRUE
    /\ start_outcome' = "raised"
    /\ UNCHANGED <<processing_thread, processing_queue, events,
                   recent_events, consumers, caller, clock, put_count,
                   got_count, event_records, directVars>>
    /\ events_at_stop' = -1
    /\ TrackLeftover

\* lines 82-90: a new client is made, connect raises, the exception goes up
StartConnectFails ==
    /\ caller = "idle"
    /\ ~running
    /\ mqtt_client' = "created"
    /\ start_outcome' = "raised"
    /\ UNCHANGED <<running, processing_thread, processing_queue, events,
                   recent_events, consumers, caller, clock, put_count,
                   got_count, event_records, directVars>>
    /\ events_at_stop' = -1
    /\ TrackLeftover

\* lines 72-94: probe and connect succeed, the consumer thread is started
StartSpawn(t) ==
    /\ caller = "idle"
    /\ ~running
    /\ consumers[t].pc = "unborn"
    /\ \A u \in Threads : u < t => consumers[u].pc # "unborn"
    /\ mqtt_client' = "connected"
    /\ processing_thread' = t
    /\ consumers' = [consumers EXCEPT ![t].pc = "check"]
    /\ caller' = "start_spawned"
    /\ UNCHANGED <<running, processing_queue, events, recent_events,
                   start_outcome, clock, put_count, got_count, event_records,
                   directVars>>
    /\ events_at_stop' = -1
    /\ TrackLeftover

\* lines 97-100: the flag is set, the network loop is started, start returns
StartFinish ==
    /\ caller = "start_spawned"
    /\ running' = TRUE
    /\ mqtt_client' = "looping"
    /\ caller' = "idle"
    /\ start_outcome' = "ok"
    /\ UNCHANGED <<processing_thread, processing_queue, events, recent_events,
                   consumers, clock, put_count, got_count, event_records,
                   directVars>>
    /\ UNCHANGED events_at_stop
    /\ TrackLeftover

(***************************************************************************)
(* TinyGuardian.stop_monitoring (guardian.py:102-108)                      *)
(***************************************************************************)
\* line 104: the flag is cleared
StopClearFlag ==
    /\ caller = "idle"
    /\ running' = FALSE
    /\ caller' = "stop_cleared"
    /\ UNCHANGED <<mqtt_client, processing_thread, processing_queue, events,
                   recent_events, consumers, start_outcome, clock, put_count,
                   got_count, event_records, directVars>>
    /\ UNCHANGED events_at_stop
    /\ TrackLeftover

\* lines 105-108: loop_stop joins the network loop, disconnect, stop returns
StopLoop ==
    /\ caller = "stop_cleared"
    /\ mqtt_client' = IF mqtt_client = "none" THEN "none" ELSE "stopped"
    /\ caller' = "idle"
    /\ UNCHANGED <<running, processing_thread, processing_queue, events,
                   recent_events, consumers, start_outcome, clock, put_count,
                   got_count, event_records, directVars>>
    /\ events_at_stop' = Len(events)
    /\ TrackLeftover

(***************************************************************************)
(* TinyGuardian._on_mqtt_message (guardian.py:121-139), called by the      *)
(* network loop's thread while that loop runs                              *)
(***************************************************************************)
OnMqttMessage(topic, payload, step) ==
    /\ mqtt_client = "looping"
    /\ put_count < MaxRecords
    /\ clock' = clock + step
    /\ put_count' = put_count + 1
    /\ processing_queue' =
           Append(processing_queue,
                  [device_id |-> ExtractDeviceId(topic),
                   log_message |-> payload,
                   timestamp |-> clock',
                   seq |-> put_count'])
    /\ UNCHANGED <<running, mqtt_client, processing_thread, events,
                   recent_events, consumers, caller, start_outcome, got_count,
                   event_records, directVars>>
    /\ UNCHANGED events_at_stop
    /\ TrackLeftover

(***************************************************************************)
(* TinyGuardian._process_queue and _process_log (guardian.py:141-177),     *)
(* run by each consumer thread                                             *)
(***************************************************************************)
\* a loop that never looks at the flag: while True
ConsumerCheckIgnoresFlag(t) ==
    /\ consumers[t].pc = "check"
    /\ consumers' = [consumers EXCEPT ![t].pc = "get"]
    /\ UNCHANGED <<running, mqtt_client, processing_thread, processing_queue,
                   events, recent_events, caller, start_outcome, clock,
                   put_count, got_count, event_records, directVars>>
    /\ UNCHANGED events_at_stop
    /\ TrackLeftover

\* line 143: while self.running
ConsumerCheck(t) ==
    /\ consumers[t].pc = "check"
    /\ consumers' = [consumers EXCEPT ![t].pc = IF running THEN "get" ELSE "done"]
    /\ UNCHANGED <<running, mqtt_client, processing_thread, processing_queue,
                   events, recent_events, caller, start_outcome, clock,
                   put_count, got_count, event_records, directVars>>
    /\ UNCHANGED events_at_stop
    /\ TrackLeftover

\* line 145: get(timeout=1) returns a record
ConsumerGet(t) ==
    /\ consumers[t].pc = "get"
    /\ processing_queue # <<>>
    /\ consumers' = [consumers EXCEPT ![t].pc = "analyze",
                                      ![t].item = Head(processing_queue)]
    /\ processing_queue' = Tail(processing_queue)
    /\ got_count' = got_count + 1
    /\ UNCHANGED <<running, mqtt_client, processing_thread, events,
                   recent_events, caller, start_outcome, clock, put_count,
                   event_records, directVars>>
    /\ UNCHANGED events_at_stop
    /\ TrackLeftover

\* lines 145-148: get(timeout=1) times out on an empty queue, queue.Empty
ConsumerTimeout(t) ==
    /\ consumers[t].pc = "get"
    /\ processing_queue = <<>>
    /\ consumers' = [consumers EXCEPT ![t].pc = "check"]
    /\ UNCHANGED <<running, mqtt_client, processing_thread, processing_queue,
                   events, recent_events, caller, start_outcome, clock,
                   put_count, got_count, event_records, directVars>>
    /\ UNCHANGED events_at_stop
    /\ TrackLeftover

\* line 161: llm_analysis = self.llm_client.analyze_log(...)
ConsumerAnalyze(t, resp) ==
    /\ consumers[t].pc = "analyze"
    /\ consumers' = [consumers EXCEPT ![t].pc = "classify",
                                      ![t].llm_analysis = AnalyzeLog(resp)]
    /\ UNCHANGED <<running, mqtt_client, processing_thread, processing_queue,
                   events, recent_events, caller, start_outcome, clock,
                   put_count, got_count, event_records, directVars>>
    /\ UNCHANGED events_at_stop
    /\ TrackLeftover

\* lines 164-169: event = self.classifier.classify(...); when classify
\* raises, lines 149-150 log the error and the loop goes on
ConsumerClassify(t) ==
    /\ consumers[t].pc = "classify"
    /\ \E c \in { consumers[t] } :
       \E r \in { Classify(recent_events, c.item.device_id, c.item.log_message,
                            c.llm_analysis, c.item.timestamp) } :
           /\ recent_events' = r.recent_events
           /\ consumers' =
                  IF r.raised
                  THEN [consumers EXCEPT ![t] = [pc |-> "check"] @@ IdleLocals]
                  ELSE [consumers EXCEPT ![t].pc = "store", ![t].event = r.event]
    /\ UNCHANGED <<running, mqtt_client, processing_thread, processing_queue,
                   events, caller, start_outcome, clock, put_count, got_count,
                   event_records, directVars>>
    /\ UNCHANGED events_at_stop
    /\ TrackLeftover

\* lines 172-177: self.events.append(event), the alert check (no observer
\* is registered here), back to the loop
ConsumerStore(t) ==
    /\ consumers[t].pc = "store"
    /\ events' = StoreEvent(events, consumers[t].event)
    /\ event_records' = Append(event_records, consumers[t].item.seq)
    /\ consumers' = [consumers EXCEPT ![t] = [pc |-> "check"] @@ IdleLocals]
    /\ UNCHANGED <<running, mqtt_client, processing_thread, processing_queue,
                   recent_events, caller, start_outcome, clock, put_count,
                   got_count, directVars>>
    /\ UNCHANGED events_at_stop
    /\ TrackLeftover

Next ==
    \/ StartAlready
    \/ StartProbeFails
    \/ StartConnectFails
    \/ \E t \in Threads : StartSpawn(t)
    \/ StartFinish
    \/ StopClearFlag
    \/ StopLoop
    \/ \E topic \in Topics, payload \in SystemPayloads, step \in SystemClockSteps :
           OnMqttMessage(topic, payload, step)
    \/ \E t \in Threads : ConsumerCheck(t)
    \/ \E t \in Threads : ConsumerGet(t)
    \/ \E t \in Threads : ConsumerTimeout(t)
    \/ \E t \in Threads, resp \in SystemResponses : ConsumerAnalyze(t, resp)
    \/ \E t \in Threads : ConsumerClassify(t)
    \/ \E t \in Threads : ConsumerStore(t)

\* the full system: lifecycle calls, the transport's callback, the consumers
Spec == Init /\ [][Next]_vars

\* the lifecycle with one kind of record: one topic, a clock that stands
\* still, a backend that always fails
LifecycleTopics == { <<"iot", "devices", "d1", "logs">> }
LifecycleClockSteps == { 0 }
LifecycleResponses == { RespError }

NextLifecycle ==
    \/ StartAlready
    \/ StartProbeFails
    \/ StartConnectFails
    \/ \E t \in Threads : StartSpawn(t)
    \/ StartFinish
    \/ StopClearFlag
    \/ StopLoop
    \/ \E topic \in LifecycleTopics, payload \in SystemPayloads,
          step \in LifecycleClockSteps : OnMqttMessage(topic, payload, step)
    \/ \E t \in Threads : ConsumerCheck(t)
    \/ \E t \in Threads : ConsumerGet(t)
    \/ \E t \in Threads : ConsumerTimeout(t)
    \/ \E t \in Threads, resp \in LifecycleResponses : ConsumerAnalyze(t, resp)
    \/ \E t \in Threads : ConsumerClassify(t)
    \/ \E t \in Threads : ConsumerStore(t)

SpecLifecycle == Init /\ [][NextLifecycle]_vars

\* the steps of consumer thread t
ConsumerStep(t) ==
    \/ ConsumerCheck(t)
    \/ ConsumerGet(t)
    \/ ConsumerTimeout(t)
    \/ \E resp \in LifecycleResponses : ConsumerAnalyze(t, resp)
    \/ ConsumerClassify(t)
    \/ ConsumerStore(t)

\* Every consumer thread that can run does run: it gets the processor, its
\* queue wait ends after one second at the latest (guardian.py:145), and the
\* backend call returns or times out (llm_client.py, timeout=30).
LifecycleFairness == \A t \in Threads : WF_vars(ConsumerStep(t))

SpecLifecycleFair == Init /\ [][NextLifecycle]_vars /\ LifecycleFairness

\* what the direct calls leave alone: the orchestrator's own state, and the
\* second classifier, which only SpecTwin drives
systemVars == <<running, mqtt_client, processing_thread, processing_queue,
                consumers, caller, start_outcome, leftover,
                twin_recent_events, twin_call, events_at_stop>>

(***************************************************************************)
(* ThreatClassifier.classify called directly, on a classifier of its own   *)
(***************************************************************************)
ClassifyDevices == { "d1", "d2" }
ClassifyTimes == { 0, 1, EventWindow + 1 }
\* what a caller passes as (log_message, llm_analysis): two assessments of a
\* failed login, in range, and one of a harmless line with a severity above 1
ClassifyInputs ==
    { [log_message |-> <<"Failed", "login", "for", "admin">>,
       llm_analysis |-> [severity |-> 3, explanation |-> Str(<<"suspicious">>)]],
      [log_message |-> <<"Failed", "login", "for", "admin">>,
       llm_analysis |-> [severity |-> 9, explanation |-> Str(<<"suspicious">>)]],
      [log_message |-> <<"temperature", "normal">>,
       llm_analysis |-> [severity |-> 15, explanation |-> Str(<<"suspicious">>)]] }

ClassifyCall(device_id, log_message, llm_analysis, timestamp) ==
    /\ calls < MaxCalls
    /\ calls' = calls + 1
    /\ \E r \in { Classify(recent_events, device_id, log_message, llm_analysis,
                            timestamp) } :
           /\ recent_events' = r.recent_events
           /\ last_call' = [op |-> "classify",
                            device_id |-> device_id,
                            log_message |-> log_message,
                            llm_analysis |-> llm_analysis,
                            timestamp |-> timestamp,
                            window_before |-> Get(recent_events, device_id, <<>>),
                            raised |-> r.raised,
                            event |-> r.event,
                            window_after |-> Get(r.recent_events, device_id, <<>>)]
    /\ UNCHANGED <<events, clock, put_count, got_count, event_records>>
    /\ UNCHANGED systemVars
    /\ UNCHANGED queryVars

NextClassify ==
    \E device_id \in ClassifyDevices, input \in ClassifyInputs,
       timestamp \in ClassifyTimes :
        ClassifyCall(device_id, input.log_message, input.llm_analysis, timestamp)

\* a classifier driven by direct classify calls with any timestamps
SpecClassify == Init /\ [][NextClassify]_vars

(***************************************************************************)
(* Two ThreatClassifier objects, each driven by direct classify calls      *)
(***************************************************************************)
TwinTimes == { 0, 1 }
TwinInputs ==
    { [log_message |-> <<"Failed", "login", "for", "admin">>,
       llm_analysis |-> [severity |-> 3, explanation |-> Str(<<"suspicious">>)]] }

\* classify on the second classifier
TwinClassifyCall(device_id, log_message, llm_analysis, timestamp) ==
    /\ calls < MaxCalls
    /\ calls' = calls + 1
    /\ \E r \in { Classify(twin_recent_events, device_id, log_message,
                            llm_analysis, timestamp) } :
           /\ twin_recent_events' = r.recent_events
           /\ twin_call' = [op |-> "classify",
                            device_id |-> device_id,
                            log_message |-> log_message,
                            llm_analysis |-> llm_analysis,
                            timestamp |-> timestamp,
                            window_before |->
                                Get(twin_recent_events, device_id, <<>>),
                            raised |-> r.raised,
                            event |-> r.event,
                            window_after |-> Get(r.recent_events, device_id, <<>>)]
    /\ UNCHANGED <<running, mqtt_client, processing_thread, processing_queue,
                   consumers, caller, start_outcome, leftover, events_at_stop>>
    /\ UNCHANGED <<events, recent_events, clock, put_count, got_count,
                   event_records, last_call>>
    /\ UNCHANGED queryVars

NextTwin ==
    \E device_id \in ClassifyDevices, input \in TwinInputs, timestamp \in TwinTimes :
        \/ ClassifyCall(device_id, input.log_message, input.llm_analysis, timestamp)
        \/ TwinClassifyCall(device_id, input.log_message, input.llm_analysis,
                            timestamp)

\* two classifiers, their calls interleaved in any order
SpecTwin == Init /\ [][NextTwin]_vars

(***************************************************************************)
(* _determine_threat_type called on texts that hold a chosen set of the    *)
(* keyword groups                                                          *)
(***************************************************************************)
\* the groups in the order the code tests them; the burst terms are only
\* looked at inside the first group
GroupOrder == <<"auth", "denied", "network", "config", "exfiltration",
                "malware", "dos">>
LogGroups == { "auth", "denied", "config", "malware" }
ExplanationGroups == { "burst", "network", "exfiltration", "dos" }

\* one way of writing a term of each group in a log line or an explanation
Phrase(group) ==
    CASE group = "auth" -> <<"Failed", "login">>
      [] group = "burst" -> <<"repeated">>
      [] group = "denied" -> <<"access", "denied">>
      [] group = "network" -> <<"Connection">>
      [] group = "config" -> <<"configuration">>
      [] group = "exfiltration" -> <<"database">>
      [] group = "malware" -> <<"virus">>
      [] group = "dos" -> <<"ddos">>

\* a text holding the phrases of the chosen groups, the later groups first
RECURSIVE TextOf(_, _)
TextOf(groups, order) ==
    IF order = <<>> THEN <<"status">>
    ELSE LET rest == TextOf(groups, Tail(order))
         IN  IF Head(order) \in groups THEN rest \o Phrase(Head(order))
             ELSE rest

\* _determine_threat_type(log_message, {"explanation": explanation})
DetermineCall(log_groups, explanation_groups) ==
    /\ \E log_message \in { TextOf(log_groups, GroupOrder \o <<"burst">>) },
          explanation \in { TextOf(explanation_groups, GroupOrder \o <<"burst">>) } :
           last_call' = [op |-> "determine",
                         groups |-> log_groups \cup explanation_groups,
                         log_message |-> log_message,
                         explanation |-> explanation,
                         threat_type |->
                             DetermineThreatType(log_message, explanation)]
    /\ UNCHANGED <<events, recent_events, clock, put_count, got_count,
                   event_records, calls>>
    /\ UNCHANGED systemVars
    /\ UNCHANGED queryVars

NextThreatType ==
    \E log_groups \in SUBSET LogGroups,
       explanation_groups \in SUBSET ExplanationGroups :
        DetermineCall(log_groups, explanation_groups)

SpecThreatType == Init /\ [][NextThreatType]_vars

(***************************************************************************)
(* _parse_response called on answers whose structured parsing fails        *)
(***************************************************************************)
\* the vocabulary groups in the order the except branch tests them
VocabularyOrder == <<"high", "medium", "low", "none">>

\* spellings of each group's words as they occur in an answer; "" leaves
\* the group out
Spellings(group) ==
    CASE group = "high" -> { "", "CRITICAL", "highly", "severe" }
      [] group = "medium" -> { "", "medium", "moderate" }
      [] group = "low" -> { "", "lower", "minor" }
      [] group = "none" -> { "", "none", "abnormal", "unsafe" }

\* the raw text: the chosen words (one per group, in the order of the
\* groups), those of the later groups first
RECURSIVE BodyOf(_)
BodyOf(chosen) ==
    IF chosen = <<>> THEN <<>>
    ELSE IF Head(chosen) # "" THEN BodyOf(Tail(chosen)) \o <<Head(chosen)>>
    ELSE BodyOf(Tail(chosen))

\* answers that make the try branch fail: no JSON in the text, JSON that is
\* not an object, an object whose severity float() rejects
UnparsedAnswers(body) ==
    { [kind |-> "text", body |-> <<"threat", "is">> \o body],
      [kind |-> "array", body |-> <<"[...]">> \o body],
      [kind |-> "json", body |-> <<"{...}">> \o body,
       obj |-> [severity |-> Str(<<"abc">>)]] }

\* _parse_response(response)
ParseCall(chosen, kind) ==
    /\ \E resp \in { a \in UnparsedAnswers(BodyOf(chosen)) :
                        a.kind = kind } :
           last_call' = [op |-> "parse",
                         chosen |-> chosen,
                         resp |-> resp,
                         result |-> ParseResponse(resp)]
    /\ UNCHANGED <<events, recent_events, clock, put_count, got_count,
                   event_records, calls>>
    /\ UNCHANGED systemVars
    /\ UNCHANGED queryVars

NextFallback ==
    \E high \in Spellings("high"), medium \in Spellings("medium"),
       low \in Spellings("low"), none \in Spellings("none"),
       kind \in { "text", "array", "json" } :
        ParseCall(<<high, medium, low, none>>, kind)

SpecFallback == Init /\ [][NextFallback]_vars

(***************************************************************************)
(* The sequential pipeline: one record delivered by _on_mqtt_message and   *)
(* handed to _process_log (guardian.py:152-177) before the next arrives    *)
(***************************************************************************)
SequentialResponses == { RespError, RespText, RespHigh, RespNegative }

ProcessLog(topic, payload, step, resp) ==
    /\ calls < MaxProcessed
    /\ calls' = calls + 1
    /\ clock' = clock + step
    /\ put_count' = put_count + 1
    /\ got_count' = got_count + 1
    /\ \E llm_analysis \in { AnalyzeLog(resp) } :
       \E r \in { Classify(recent_events, ExtractDeviceId(topic), payload,
                            llm_analysis, clock') } :
           /\ recent_events' = r.recent_events
           /\ events' = IF r.raised THEN events ELSE StoreEvent(events, r.event)
           /\ event_records' = IF r.raised THEN event_records
                               ELSE Append(event_records, put_count')
           /\ last_call' = [op |-> "process",
                            device_id |-> ExtractDeviceId(topic),
                            resp |-> resp,
                            llm_analysis |-> llm_analysis,
                            timestamp |-> clock',
                            window_before |->
                                Get(recent_events, ExtractDeviceId(topic), <<>>),
                            raised |-> r.raised,
                            event |-> r.event,
                            alert_callbacks |-> alert_callbacks,
                            observer_raised_before |->
                                /\ last_call.op = "process"
                                /\ \/ last_call.observer_raised_before
                                   \/ \E i \in 1..Len(last_call.invoked) :
                                          last_call.invoked[i].raised,
                            invoked |-> IF r.raised THEN <<>>
                                        ELSE AlertDispatch(alert_callbacks, r.event)]
    /\ UNCHANGED systemVars
    /\ UNCHANGED queryVars

NextProcess ==
    \E topic \in Topics, payload \in SystemPayloads, step \in SystemClockSteps,
       resp \in SequentialResponses :
        ProcessLog(topic, payload, step, resp)

\* one consumer, records processed one after the other
SpecProcess == Init /\ [][NextProcess]_vars

(***************************************************************************)
(* Observers: register_alert_callback (guardian.py:187-189) between the    *)
(* records of the sequential pipeline, whose _process_log dispatches       *)
(***************************************************************************)
RespThreshold ==
    [kind |-> "json", body |-> <<"{...}">>,
     obj |-> [threat_level |-> Str(<<"high">>), severity |-> Num(7),
              explanation |-> Str(<<"port", "scan">>)]]

\* answers giving severities 0.0, 0.7 and 0.8
AlertResponses == { RespError, RespThreshold, RespText }
AlertTopics == { <<"iot", "devices", "d1", "logs">> }
AlertClockSteps == { 0 }

RegisterAlertCallback(callback) ==
    /\ Len(alert_callbacks) < MaxCallbacks
    /\ alert_callbacks' = Append(alert_callbacks, callback)
    /\ UNCHANGED <<events, recent_events, clock, put_count, got_count,
                   event_records, calls, last_call, reader, last_query>>
    /\ UNCHANGED systemVars

NextAlerts ==
    \/ \E callback \in Callbacks : RegisterAlertCallback(callback)
    \/ \E topic \in AlertTopics, payload \in SystemPayloads,
          step \in AlertClockSteps, resp \in AlertResponses :
           ProcessLog(topic, payload, step, resp)

\* the sequential pipeline with observers being registered
SpecAlerts == Init /\ [][NextAlerts]_vars

(***************************************************************************)
(* Queries: get_recent_events, get_alerts and get_stats (guardian.py:      *)
(* 191-215) called one at a time by the API's thread while the sequential  *)
(* pipeline appends events                                                 *)
(***************************************************************************)
\* the limit query parameter of the API is any int
QueryLimits == { -1, 1, 50 }

RespBelow ==
    [kind |-> "json", body |-> <<"{...}">>,
     obj |-> [threat_level |-> Str(<<"medium">>), severity |-> Num(6),
              explanation |-> Str(<<"port", "scan">>)]]

\* answers giving severities 0.6, 0.7 and 0.8
QueryResponses == { RespBelow, RespThreshold, RespText }
QueryClockSteps == { 0, 1 }

\* line 193
GetRecentEvents(limit) ==
    /\ reader.pc = "idle"
    /\ last_query' = [op |-> "get_recent_events", limit |-> limit,
                      log |-> events, result |-> RecentEvents(events, limit)]
    /\ UNCHANGED <<events, recent_events, clock, put_count, got_count,
                   event_records, calls, last_call, alert_callbacks, reader>>
    /\ UNCHANGED systemVars

\* lines 197-198; the list comprehension reads events appended while it runs,
\* so it sees the log as it is when it ends
GetAlerts(limit) ==
    /\ reader.pc = "idle"
    /\ last_query' = [op |-> "get_alerts", limit |-> limit,
                      log |-> events, result |-> Alerts(events, limit)]
    /\ UNCHANGED <<events, recent_events, clock, put_count, got_count,
                   event_records, calls, last_call, alert_callbacks, reader>>
    /\ UNCHANGED systemVars

\* get_stats, line 202: total_events = len(self.events)
GetStatsTotal ==
    /\ reader.pc = "idle"
    /\ reader' = [pc |-> "alerts", log_at_call |-> events,
                  total_events |-> Len(events)]
    /\ UNCHANGED <<events, recent_events, clock, put_count, got_count,
                   event_records, calls, last_call, alert_callbacks, last_query>>
    /\ UNCHANGED systemVars

\* get_stats, line 203: the list comprehension sees the log as it is when it
\* ends
GetStatsAlerts ==
    /\ reader.pc = "alerts"
    /\ reader' = [reader EXCEPT !.pc = "threat_types"] @@
                 [alerts |-> AlertCount(events)]
    /\ UNCHANGED <<events, recent_events, clock, put_count, got_count,
                   event_records, calls, last_call, alert_callbacks, last_query>>
    /\ UNCHANGED systemVars

\* get_stats, lines 205-215: the loop over self.events, which sees the log as
\* it is when it ends, then the result; uptime_seconds in half seconds
GetStatsReturn ==
    /\ reader.pc = "threat_types"
    /\ last_query' = [op |-> "get_stats",
                      total_events |-> reader.total_events,
                      alerts |-> reader.alerts,
                      threat_types |-> ThreatTypes(events, <<>>),
                      uptime_seconds |-> IF events # <<>>
                                         THEN clock - events[1].timestamp ELSE 0,
                      log_at_call |-> reader.log_at_call,
                      log |-> events]
    /\ reader' = ReaderIdle
    /\ UNCHANGED <<events, recent_events, clock, put_count, got_count,
                   event_records, calls, last_call, alert_callbacks>>
    /\ UNCHANGED systemVars

\* _process_log for one more record, while fewer than MaxQueried were processed
ProcessLogQueried(topic, payload, step, resp) ==
    /\ calls < MaxQueried
    /\ ProcessLog(topic, payload, step, resp)

NextQueries ==
    \/ \E limit \in QueryLimits : GetRecentEvents(limit)
    \/ \E limit \in QueryLimits : GetAlerts(limit)
    \/ GetStatsTotal
    \/ GetStatsAlerts
    \/ GetStatsReturn
    \/ \E topic \in AlertTopics, payload \in SystemPayloads,
          step \in QueryClockSteps, resp \in QueryResponses :
           ProcessLogQueried(topic, payload, step, resp)

\* the sequential pipeline with the API's thread querying it
SpecQueries == Init /\ [][NextQueries]_vars

(***************************************************************************)
(* Claims about the full system                                            *)
(***************************************************************************)
\* the consumer threads that hold a record: between get() and the return
\* of _process_log
Processing == { t \in Threads : consumers[t].pc \in {"analyze", "classify", "store"} }

\* the consumer threads that have been started and have not returned
Alive == { t \in Threads : consumers[t].pc \notin {"unborn", "done"} }

\* the events of the log that came from record s
EventsOf(s) == { i \in 1..Len(event_records) : event_records[i] = s }

\* C2: once start() has returned and until stop() is called (the flag is set
\* and no lifecycle call is under way), the consumer thread that start()
\* launched is alive.
C2_ConsumerAliveWhileRunning ==
    (running /\ caller = "idle") =>
        (processing_thread \in Threads /\ processing_thread \in Alive)

\* C3: at most one consumer thread is alive, and at most one record is being
\* processed, at any time.
C3_SingleConsumer == Cardinality(Alive) <= 1 /\ Cardinality(Processing) <= 1

\* C4: a record that was in the queue while the orchestrator was stopped is
\* never classified and never appended to the event log.
C4_LeftoverDiscarded ==
    /\ \A t \in Threads :
           consumers[t].pc = "store" => consumers[t].item.seq \notin leftover
    /\ \A i \in 1..Len(event_records) : event_records[i] \notin leftover

\* C5: every step that puts a record on the queue is taken with the running
\* flag set.
C5_NoEnqueueWhileStopped ==
    [][Len(processing_queue') > Len(processing_queue) => running]_vars

\* C6: no two events of the log have the same event_id.
C6_UniqueEventIds ==
    \A i, j \in 1..Len(events) :
        i # j => events[i].event_id # events[j].event_id

\* C7: every record taken off the queue whose processing has ended has
\* exactly one event in the log, and none has more than one.
C7_OneEventPerRecord ==
    \A s \in 1..got_count :
        IF \E t \in Threads : consumers[t].item.seq = s
        THEN Cardinality(EventsOf(s)) <= 1
        ELSE Cardinality(EventsOf(s)) = 1

(***************************************************************************)
(* Claims about classify called directly (SpecClassify)                    *)
(***************************************************************************)
\* the last direct call returned an event
Classified == last_call.op = "classify" /\ ~last_call.raised

\* the severity the caller passed to the last call
GivenSeverity == Get(last_call.llm_analysis, "severity", 0)

\* the events the device's window held before the last call that have the
\* new event's threat type and a timestamp >= timestamp - window
PriorSimilar ==
    { i \in 1..Len(last_call.window_before) :
          /\ last_call.window_before[i].threat_type = last_call.event.threat_type
          /\ last_call.window_before[i].timestamp
                 >= last_call.timestamp - EventWindow }

\* C1: the event classify returns has the given severity plus 0.2, capped
\* at 1.0, when the device's window already held at least 3 events of the
\* same threat type inside the window, and the given severity otherwise; so
\* none of the first three calls is escalated.
C1_EscalationRule ==
    Classified =>
        /\ last_call.event.severity =
               IF Cardinality(PriorSimilar) >= 3
               THEN Min(SeverityCap, GivenSeverity + Escalation)
               ELSE GivenSeverity
        /\ calls <= 3 => last_call.event.severity = GivenSeverity

\* C1 witness: the fourth call of a burst is escalated by 0.2, below the cap
C1_FourthEscalated ==
    /\ Classified
    /\ calls = 4
    /\ Cardinality(PriorSimilar) = 3
    /\ last_call.event.severity = GivenSeverity + Escalation
    /\ last_call.event.severity < SeverityCap

\* C9: the event classify returns, and every event stored in a window, has
\* severity in [0.0, 1.0].
C9_ClassifySeverityInRange ==
    Classified =>
        /\ last_call.event.severity \in 0..SeverityCap
        /\ \A d \in DOMAIN recent_events : \A i \in 1..Len(recent_events[d]) :
               recent_events[d][i].severity \in 0..SeverityCap

\* C10 as claimed: no window of any device holds an event older than
\* now - window, now being the timestamp of the record classified last.
C10_NoEventOlderThanLastClassified ==
    Classified =>
        \A d \in DOMAIN recent_events : \A i \in 1..Len(recent_events[d]) :
            recent_events[d][i].timestamp >= last_call.timestamp - EventWindow

\* C10 as amended: no window of a device d holds an event older than
\* now - window, now being the timestamp of the record of d classified last
\* (the last event of d's window).
C10_NoEventOlderThanOwnLatest ==
    \A d \in DOMAIN recent_events : \A i \in 1..Len(recent_events[d]) :
        recent_events[d][i].timestamp
            >= recent_events[d][Len(recent_events[d])].timestamp - EventWindow

\* C10 witness: the last call pruned an event from its device's window while
\* another device keeps an event older than that call's cutoff
C10_PrunedAndStale ==
    /\ Classified
    /\ Len(recent_events[last_call.device_id]) <= Len(last_call.window_before)
    /\ \E d \in DOMAIN recent_events : \E i \in 1..Len(recent_events[d]) :
           recent_events[d][i].timestamp < last_call.timestamp - EventWindow

(***************************************************************************)
(* Claims about the sequential pipeline (SpecProcess)                      *)
(***************************************************************************)
\* C8: every event of the event log has severity in [0.0, 1.0].
C8_LogSeverityInRange ==
    \A i \in 1..Len(events) : events[i].severity \in 0..SeverityCap

\* C8 witness: the backend answered with severity 1.5, the device's window
\* already held three similar events, and the escalated event was appended
\* with severity 1.0
C8_OutOfRangeEscalated ==
    /\ last_call.op = "process"
    /\ ~last_call.raised
    /\ last_call.resp = RespHigh
    /\ Cardinality(PriorSimilar) >= 3
    /\ events # <<>>
    /\ events[Len(events)] = last_call.event
    /\ events[Len(events)].severity = SeverityCap

(***************************************************************************)
(* Claims about the event log and the order of processing                  *)
(***************************************************************************)
\* C11: the event log is append-only: in every step the log before the step
\* is a prefix of the log after it, so no operation removes, reorders or
\* changes a stored event.
C11_AppendOnly ==
    [][/\ Len(events') >= Len(events)
       /\ SubSeq(events', 1, Len(events)) = events]_vars

\* C11 witness: get_recent_events returned a list ordered differently from
\* the log it read, an event was appended afterwards, and the log still
\* starts with the events it held, in their order
C11_QueriedLogKept ==
    /\ last_query.op = "get_recent_events"
    /\ Len(last_query.log) >= 2
    /\ last_query.result # last_query.log
    /\ Len(events) > Len(last_query.log)
    /\ SubSeq(events, 1, Len(last_query.log)) = last_query.log

\* C12: events are appended in the order their records were enqueued, and a
\* record enters classification only when no record enqueued before it is
\* still being classified.
C12_GlobalFifo ==
    /\ \A i, j \in 1..Len(event_records) :
           i < j => event_records[i] < event_records[j]
    /\ \A t, u \in Threads :
           (/\ consumers[t].pc \in {"classify", "store"}
            /\ consumers[u].pc \in {"analyze", "classify"}
            /\ t # u)
               => consumers[u].item.seq > consumers[t].item.seq

(***************************************************************************)
(* Claims about failures                                                   *)
(***************************************************************************)
\* C13: when the connectivity probe or the transport connect fails, start
\* raises and leaves the orchestrator stopped: once it has raised, the flag
\* is false and the network loop is not running, so no record can be
\* accepted; and the step in which it raises starts no consumer thread and
\* puts no record on the queue.
C13_FailedStartLeavesStopped ==
    /\ []((start_outcome = "raised" /\ caller = "idle") =>
              (~running /\ mqtt_client # "looping"))
    /\ [][(start_outcome' = "raised" /\ start_outcome # "raised") =>
              (/\ ~running'
               /\ consumers' = consumers
               /\ processing_thread' = processing_thread
               /\ processing_queue' = processing_queue
               /\ put_count' = put_count)]_vars

\* C13 witness: the connect failed on a fresh orchestrator
C13_ConnectFailed ==
    /\ start_outcome = "raised"
    /\ mqtt_client = "created"
    /\ caller = "idle"
    /\ NoConsumer
    /\ put_count = 0

\* C14: when the inference call fails, the consumer classifies the record
\* with the degraded assessment (threat_level "unknown", severity 0.0), and
\* every record dequeued from a backend that only fails has exactly one
\* event in the log once it is no longer in flight: a failed call costs no
\* record, before or after it.
C14_FailedCallDegraded ==
    /\ \A t \in Threads :
           consumers[t].pc \in {"classify", "store"} =>
               /\ consumers[t].llm_analysis.threat_level = <<"unknown">>
               /\ consumers[t].llm_analysis.severity = 0
    /\ \A t \in Threads :
           consumers[t].pc = "store" =>
               consumers[t].event.threat_level = <<"unknown">>
    /\ \A s \in 1..got_count :
           \/ \E t \in Threads : consumers[t].item.seq = s
           \/ Cardinality(EventsOf(s)) = 1
    /\ \A i \in 1..Len(events) : events[i].threat_level = <<"unknown">>

\* C14 witness: two inference calls failed, both records have their event,
\* and a consumer is back at the head of its loop
C14_TwoFailuresTwoEvents ==
    /\ got_count = 2
    /\ Len(events) = 2
    /\ event_records = <<1, 2>>
    /\ \E t \in Threads : consumers[t].pc = "check"

(***************************************************************************)
(* Claims about alert dispatch (SpecAlerts)                                *)
(***************************************************************************)
\* the last record of the pipeline was classified and stored
Processed == last_call.op = "process" /\ ~last_call.raised

\* the observers called for the last record, in the order of the calls
InvokedCallbacks ==
    [i \in 1..Len(last_call.invoked) |-> last_call.invoked[i].callback]

\* C15: for a processed event the observers are called if and only if its
\* severity is >= the threshold; when they are, the calls are exactly the
\* observers registered at that time, each once, in the order they were
\* registered; below the threshold no observer is called.
C15_ObserversIffAlert ==
    Processed =>
        InvokedCallbacks =
            IF last_call.event.severity >= SeverityThreshold
            THEN last_call.alert_callbacks
            ELSE <<>>

\* C15 witness: an event with severity exactly at the threshold was
\* dispatched to two registered observers
C15_ThresholdDispatched ==
    /\ Processed
    /\ last_call.event.severity = SeverityThreshold
    /\ Len(last_call.alert_callbacks) = 2
    /\ InvokedCallbacks = last_call.alert_callbacks

\* C16: when an observer raises during a dispatch, every observer registered
\* after it is still called for that event, the event is in the log, and
\* every record processed so far, after a raising observer too, has its
\* event.
C16_ObserverFailureIsolated ==
    Processed =>
        /\ \A i \in 1..Len(last_call.invoked) :
               last_call.invoked[i].raised =>
                   \A j \in (i + 1)..Len(last_call.alert_callbacks) :
                       /\ j <= Len(last_call.invoked)
                       /\ last_call.invoked[j].callback = last_call.alert_callbacks[j]
        /\ (IsAlert(last_call.event) /\ last_call.alert_callbacks # <<>>) =>
               last_call.invoked # <<>>
        /\ events # <<>> /\ events[Len(events)] = last_call.event
        /\ Len(events) = calls

\* C16 witness: an observer raised in an earlier dispatch; for the last
\* record the first observer raised and the one registered after it was
\* called
C16_CalledAfterRaise ==
    /\ Processed
    /\ last_call.observer_raised_before
    /\ Len(last_call.invoked) = 2
    /\ last_call.invoked[1].raised
    /\ last_call.invoked[2].callback = "on_alert"
    /\ ~last_call.invoked[2].raised

(***************************************************************************)
(* Claims about the windows of classify called directly (SpecClassify)     *)
(***************************************************************************)
\* C17: a classify call for one device leaves the window of every other
\* device as it was and adds no other device, and its event is escalated
\* exactly when the device's own window held at least 3 events of the
\* event's type inside the window, whatever the other devices' windows hold.
C17_PerDeviceBursts ==
    [][calls' = calls + 1 =>
          /\ \A d \in DOMAIN recent_events :
                 d # last_call'.device_id =>
                     /\ d \in DOMAIN recent_events'
                     /\ recent_events'[d] = recent_events[d]
          /\ DOMAIN recent_events' \subseteq
                 DOMAIN recent_events \cup { last_call'.device_id }
          /\ ~last_call'.raised =>
                 LET own == Get(recent_events, last_call'.device_id, <<>>)
                     similar ==
                         { i \in 1..Len(own) :
                               /\ own[i].threat_type = last_call'.event.threat_type
                               /\ own[i].timestamp
                                      >= last_call'.timestamp - EventWindow }
                 IN  (last_call'.event.severity
                          # Get(last_call'.llm_analysis, "severity", 0))
                         <=> Cardinality(similar) >= 3]_vars

\* C17 witness: three similar events of d1 are inside the window, and the
\* event classified for d2 right after them is not escalated
C17_OtherDeviceNotEscalated ==
    /\ Classified
    /\ calls = 4
    /\ last_call.device_id = "d2"
    /\ "d1" \in DOMAIN recent_events
    /\ Cardinality({ i \in 1..Len(recent_events["d1"]) :
                       /\ recent_events["d1"][i].threat_type
                              = last_call.event.threat_type
                       /\ recent_events["d1"][i].timestamp
                              >= last_call.timestamp - EventWindow }) = 3
    /\ last_call.event.severity = GivenSeverity

\* C18: after classify(d, ..., t) returns, d's window is the earlier window
\* events with timestamp >= t - window, in their order, followed by the new
\* event: an event exactly at t - window stays, an older one goes.
C18_WindowAfterClassify ==
    Classified =>
        recent_events[last_call.device_id] =
            SelectSeq(last_call.window_before,
                      LAMBDA e : ~(e.timestamp < last_call.timestamp - EventWindow))
                \o <<last_call.event>>

\* C18 witness: the window held an event exactly at t - window and an older
\* one; the first is kept, the second is gone
C18_BoundaryKeptOlderGone ==
    /\ Classified
    /\ \E i \in 1..Len(last_call.window_before) :
           /\ last_call.window_before[i].timestamp = last_call.timestamp - EventWindow
           /\ \E j \in 1..Len(recent_events[last_call.device_id]) :
                  recent_events[last_call.device_id][j] = last_call.window_before[i]
    /\ \E i \in 1..Len(last_call.window_before) :
           /\ last_call.window_before[i].timestamp < last_call.timestamp - EventWindow
           /\ \A j \in 1..Len(recent_events[last_call.device_id]) :
                  recent_events[last_call.device_id][j] # last_call.window_before[i]

(***************************************************************************)
(* Claims about get_stats (SpecQueries)                                    *)
(***************************************************************************)
\* the sum of the counts of a threat_types mapping
RECURSIVE SumOfCounts(_)
SumOfCounts(threat_types) ==
    IF DOMAIN threat_types = {} THEN 0
    ELSE LET ty == CHOOSE x \in DOMAIN threat_types : TRUE
         IN  threat_types[ty]
                 + SumOfCounts([x \in DOMAIN threat_types \ {ty} |-> threat_types[x]])

\* the last query was get_stats
StatsReturned == last_query.op = "get_stats"

\* C19: what get_stats returns while the consumer appends is consistent
\* with one snapshot of the log: the per-type counts sum to total_events and
\* alerts <= total_events.
C19_StatsOneSnapshot ==
    StatsReturned =>
        /\ SumOfCounts(last_query.threat_types) = last_query.total_events
        /\ last_query.alerts <= last_query.total_events

\* C20: when no event is appended during the call, get_stats returns the
\* number of stored events, the number of them with severity >= threshold,
\* and for each threat type the number of stored events of that type, so the
\* counts sum to total_events.
C20_StatsOfQuietLog ==
    (StatsReturned /\ last_query.log_at_call = last_query.log) =>
        LET log == last_query.log
        IN  /\ last_query.total_events = Len(log)
            /\ last_query.alerts =
                   Cardinality({ i \in 1..Len(log) :
                                   log[i].severity >= SeverityThreshold })
            /\ DOMAIN last_query.threat_types =
                   { log[i].threat_type : i \in 1..Len(log) }
            /\ \A ty \in DOMAIN last_query.threat_types :
                   last_query.threat_types[ty] =
                       Cardinality({ i \in 1..Len(log) : log[i].threat_type = ty })
            /\ SumOfCounts(last_query.threat_types) = last_query.total_events

\* C20 witness: get_stats ran with no append on a log of three events of two
\* types, some of them alerts and some not
C20_StatsOfThree ==
    /\ StatsReturned
    /\ last_query.log_at_call = last_query.log
    /\ last_query.total_events = 3
    /\ last_query.alerts \in 1..2
    /\ Cardinality(DOMAIN last_query.threat_types) = 2
    /\ \E ty \in DOMAIN last_query.threat_types : last_query.threat_types[ty] = 2

(***************************************************************************)
(* Claims about get_recent_events and get_alerts (SpecQueries)             *)
(***************************************************************************)
\* the events of a sequence, as a set
EventsIn(seq) == { seq[i] : i \in 1..Len(seq) }

\* a sequence of events is ordered by timestamp, newest first
NewestFirst(seq) ==
    \A i, j \in 1..Len(seq) : i < j => seq[i].timestamp >= seq[j].timestamp

\* C21: for every log and every limit, get_recent_events(limit) returns at
\* most limit events (none for a limit below 1), newest first, and they are
\* the limit most recent events of the log: all of the log when it holds
\* fewer than limit, and no event left out is newer than an event returned.
C21_RecentEventsMostRecent ==
    last_query.op = "get_recent_events" =>
        /\ Len(last_query.result) <= Max(0, last_query.limit)
        /\ Len(last_query.result)
               = Min(Max(0, last_query.limit), Len(last_query.log))
        /\ NewestFirst(last_query.result)
        /\ EventsIn(last_query.result) \subseteq EventsIn(last_query.log)
        /\ \A e \in EventsIn(last_query.log) \ EventsIn(last_query.result) :
               \A r \in EventsIn(last_query.result) : r.timestamp >= e.timestamp

SameCall ==
    /\ last_call.op = "classify"
    /\ twin_call.op = "classify"
    /\ last_call.device_id = twin_call.device_id
    /\ last_call.log_message = twin_call.log_message
    /\ last_call.llm_analysis = twin_call.llm_analysis
    /\ last_call.timestamp = twin_call.timestamp
    /\ last_call.window_before = twin_call.window_before

TypeOfGroup(group, burst) ==
    CASE group = "auth" -> IF burst THEN "brute_force" ELSE "unauthorized_access"
      [] group = "denied" -> "unauthorized_access"
      [] group = "network" -> "network_anomaly"
      [] group = "config" -> "configuration_change"
      [] group = "exfiltration" -> "data_exfiltration"
      [] group = "malware" -> "malware"
      [] group = "dos" -> "denial_of_service"

\* C24: the threat type is the type of the earliest keyword group present in
\* the lower-cased log text plus explanation, in the order auth failure
\* (brute_force with a burst term, else unauthorized_access), denial,
\* networking, configuration, exfiltration, malware, DoS; unknown when no
\* group is present.
C24_FirstGroupWins ==
    last_call.op = "determine" =>
        LET present == { i \in 1..Len(GroupOrder) :
                             GroupOrder[i] \in last_call.groups }
        IN  IF present = {} THEN last_call.threat_type = "unknown"
            ELSE \E i \in present :
                     /\ \A j \in present : i <= j
                     /\ last_call.threat_type
                            = TypeOfGroup(GroupOrder[i],
                                          "burst" \in last_call.groups)

\* C24 witness: networking, exfiltration and DoS terms in one text, typed as
\* a network anomaly
C24_NetworkBeforeLater ==
    /\ last_call.op = "determine"
    /\ last_call.groups = { "burst", "network", "exfiltration", "dos", "malware" }
    /\ last_call.threat_type = "network_anomaly"

(***************************************************************************)
(* Claims about the fallback assessment (SpecFallback)                     *)
(***************************************************************************)
\* the level and severity the claim gives to each vocabulary group
LevelOfGroup(group) == <<group>>
SeverityOfGroup(group) ==
    CASE group = "high" -> 8
      [] group = "medium" -> 5
      [] group = "low" -> 3
      [] group = "none" -> 0

\* C25: when structured parsing of an answer fails, the assessment is that of
\* the first vocabulary group present in the text, in the order high (0.8),
\* medium (0.5), low (0.3), none (0.0), and unknown with 0.5 when no group is
\* present; an answer containing "critical" gives high with 0.8 whatever
\* other vocabulary it contains.
C25_FirstVocabularyWins ==
    last_call.op = "parse" =>
        LET present == { i \in 1..Len(VocabularyOrder) : last_call.chosen[i] # "" }
            result == last_call.result
        IN  /\ IF present = {}
               THEN result.threat_level = <<"unknown">> /\ result.severity = 5
               ELSE \E i \in present :
                        /\ \A j \in present : i <= j
                        /\ result.threat_level = LevelOfGroup(VocabularyOrder[i])
                        /\ result.severity = SeverityOfGroup(VocabularyOrder[i])
            /\ last_call.chosen[1] = "CRITICAL" =>
                   result.threat_level = <<"high">> /\ result.severity = 8

\* C25 witness: an answer that is not JSON and holds "CRITICAL" after words
\* of the three other groups, assessed as high with 0.8
C25_CriticalAmongOthers ==
    /\ last_call.op = "parse"
    /\ last_call.resp.kind = "text"
    /\ last_call.chosen = <<"CRITICAL", "moderate", "minor", "unsafe">>
    /\ last_call.result.threat_level = <<"high">>
    /\ last_call.result.severity = 8

(***************************************************************************)
(* Claims about progress (SpecLifecycleFair)                               *)
(***************************************************************************)
\* C26: after stop has cleared the flag, and unless start is called again,
\* every consumer thread eventually terminates, whether the queue is empty
\* or still holds or receives records.
C26_ConsumerEndsAfterStop ==
    (~running /\ caller = "stop_cleared")
        ~> (NoConsumer \/ caller = "start_spawned")

\* C26 witness: a started and stopped orchestrator whose consumer has
\* logged a record and has ended, with a record still in the queue
C26_EndedWithQueuedRecord ==
    /\ Stopped
    /\ mqtt_client = "stopped"
    /\ start_outcome = "ok"
    /\ consumers[processing_thread].pc = "done"
    /\ events # <<>>
    /\ processing_queue # <<>>

\* C27: under fair scheduling, with backend calls that return and no stop,
\* every record enqueued after a successful start is eventually dequeued,
\* classified and appended to the event log.
C27_EnqueuedEventuallyLogged ==
    [](caller # "stop_cleared") =>
        \A s \in 1..MaxRecords :
            (put_count >= s /\ start_outcome = "ok")
                ~> (\E i \in 1..Len(event_records) : event_records[i] = s)

(***************************************************************************)
(* Claims about what happens after stop (Spec)                             *)
(***************************************************************************)
\* C28: once stop has cleared the flag and returned, and start has not been
\* called since, at most one more event is appended to the event log.
C28_OneEventAfterStop ==
    events_at_stop >= 0 => Len(events) - events_at_stop <= 1

(***************************************************************************)
(* Claims about the windows and the event log (SpecProcess)                *)
(***************************************************************************)
\* the events of the log that belong to a device, in the log's order
LogOf(log, device_id) == SelectSeq(log, LAMBDA e : e.device_id = device_id)

\* the timestamp of the device's latest logged event
LatestOf(log, device_id) ==
    LogOf(log, device_id)[Len(LogOf(log, device_id))].timestamp

\* the devices that have an event in the log
LoggedDevices == { events[i].device_id : i \in 1..Len(events) }

\* C29: records being processed one after the other with timestamps that
\* never decrease, after each record every device's window equals, in order,
\* the events of the event log for that device whose timestamp is at least
\* (the device's latest timestamp - window); and the number of similar
\* events the escalation rule counted in the window equals the number
\* counted in the event log as it was before the record.
C29_WindowIsFilteredLog ==
    /\ DOMAIN recent_events = LoggedDevices
    /\ \A d \in DOMAIN recent_events :
           recent_events[d]
               = SelectSeq(LogOf(events, d),
                           LAMBDA e : e.timestamp
                                          >= LatestOf(events, d) - EventWindow)
    /\ (last_call.op = "process" /\ ~last_call.raised) =>
           LET new == last_call.event
               before == Take(events, Len(events) - 1)
           IN  /\ events[Len(events)] = new
               /\ Len(SimilarRecent(last_call.window_before, new.threat_type,
                                    new.timestamp))
                      = Cardinality({ i \in 1..Len(before) :
                            /\ before[i].device_id = new.device_id
                            /\ before[i].threat_type = new.threat_type
                            /\ before[i].timestamp
                                   >= new.timestamp - EventWindow })

\* C29 witness: a device whose window has lost its oldest event and holds
\* two later ones, the older of them exactly one window old
C29_PrunedWindowOfTwo ==
    \E d \in DOMAIN recent_events :
        /\ Len(recent_events[d]) = 2
        /\ Len(LogOf(events, d)) = 3
        /\ recent_events[d][1].timestamp
               = recent_events[d][2].timestamp - EventWindow
        /\ last_call.op = "process"
        /\ last_call.device_id = d
        /\ ~last_call.raised

====
